---- MODULE Spec2Model ----
(***************************************************************************)
(* Simulated annealing over ZX-diagrams: the function anneal of            *)
(* pyzx/local_search/simulated_annealing.py, one call of it, statement by  *)
(* statement.                                                              *)
(*                                                                         *)
(* Diagrams are objects on a heap: a variable of the program holds an      *)
(* object identity, heap maps the identity of every live object to its     *)
(* content, copy() allocates a new object with the same content.  Contents *)
(* are the numbers 0..NumDiagrams-1, all in one equivalence class.         *)
(*                                                                         *)
(* Reals are exact rationals: a probability or the cooling rate is a       *)
(* numerator over Grid, the temperature is a numerator over Grid^e.  A     *)
(* draw of random.uniform(0, 1) is a numerator u over Grid (0 <= u < Grid),*)
(* a draw of random.random() in the acceptance test is exp(-m) for a       *)
(* level m in 1..MaxLevel, so that "draw < exp(x)" is "-m < x".            *)
(***************************************************************************)
EXTENDS Integers, Sequences, FiniteSets, TLC

VARIABLES
    args,         \* the arguments of the call, as the caller passed them
    heap,         \* live diagram objects: identity -> content
    g,            \* current diagram (the parameter g, reassigned on accept/reset)
    g1,           \* candidate diagram of the iteration
    g_best,       \* incumbent diagram
    sz,           \* tracked current score
    sz1,          \* score of the candidate
    sz_best,      \* tracked incumbent score
    best_scores,  \* the score history
    temp,         \* temperature (the parameter temp, reassigned when cooled)
    i,            \* the loop index: iterations completed so far
    pc,           \* position in anneal
    ret,          \* what anneal returned
    log           \* observations of the run, not read by the program

vars == <<args, heap, g, g1, g_best, sz, sz1, sz_best, best_scores, temp, i, pc, ret, log>>

\* the value of a local variable not yet assigned (no object, no score)
Unbound == 0 - 1

(* ------------------------------ bounds -------------------------------- *)

MaxIters == 2      \* largest iters argument
NumDiagrams == 4   \* number of diagram contents
MaxTemp == 1       \* largest initial temperature
MaxLevel == 3      \* acceptance draws are exp(-1) .. exp(-MaxLevel)
Grid == 2          \* denominator of probabilities, cooling rate and uniform draws

Diagrams == 0 .. (NumDiagrams - 1)
Levels == 1 .. MaxLevel
Uniform == 0 .. (Grid - 1)
\* cool: 0, 1/Grid, and 1 (out of range: the first cooling zeroes the temperature)
CoolRates == {0, 1, Grid}
\* full_reduce_prob, reset_prob: 0 (never), 1/Grid (sometimes), and a value
\* above 1 (out of range: always)
Probs == {0, 1, Grid + 1}
\* cong_ps = [p(LC), p(PIVOT)]: LC only, an even mix (Grid = 2), PIVOT only
Mixes == {<<Grid, 0>>, <<1, Grid - 1>>, <<0, Grid>>}

(* ---------------------------- collaborators --------------------------- *)

\* score(d): the cost of a diagram; pure, a function of the content only.
Score(d) == (d + 1) \div 2

\* full_reduce(g1): the normalization pass, deterministic and idempotent.
FullReduce(d) == d - (d % 2)

\* The contents apply_rand_pivot / apply_rand_lc can leave in a diagram of
\* content d: any diagram of the equivalence class.
Rewrites(d) == Diagrams

\* The move finds no applicable rewrite in a diagram of content d and fails
\* with that condition, an exception; nothing tells which diagrams have no
\* site, so any may.
NoRewrite(d) == d \in Diagrams

(* ------------------------------ helpers ------------------------------- *)

RECURSIVE Pow(_, _)
Pow(b, e) == IF e = 0 THEN 1 ELSE b * Pow(b, e - 1)

\* The identity a newly allocated object gets: one no live object has.
FreshId(live) == CHOOSE n \in 0 .. Cardinality(live) : n \notin live

Live == ({args.g, g, g1, g_best} \ {Unbound})

\* heap after x.copy() allocated object n
Copied(h, n, x) == [o \in (DOMAIN h) \cup {n} |-> IF o = n THEN h[x] ELSE h[o]]

\* heap without the objects no variable refers to any more
Collect(h, keep) == [o \in (DOMAIN h) \cap keep |-> h[o]]

(* ---------------------------- real arithmetic ------------------------- *)

\* temp != 0
NonZero(t) == t.n # 0

\* temp * (1.0 + cool): heating for cooling
CooledUp(t, c) == [n |-> t.n * (Grid + c), e |-> t.e + 1]

\* temp * (1.0 - cool) * (1.0 - cool): the schedule advanced twice
CooledTwice(t, c) == [n |-> t.n * (Grid - c) * (Grid - c), e |-> t.e + 2]

\* temp * (1.0 - cool), for cool = c / Grid
Cooled(t, c) == [n |-> t.n * (Grid - c), e |-> t.e + 1]

\* the exponent with the sign of the difference turned: exp((s1 - s) / t)
BelowExpFlipped(m, s, s1, t) == (0 - m) * t.n < (s1 - s) * Pow(Grid, t.e)

\* random.random() < math.exp((s - s1) / t), for the draw exp(-m) and t > 0:
\* -m < (s - s1) / t
BelowExp(m, s, s1, t) == (0 - m) * t.n < (s - s1) * Pow(Grid, t.e)

\* random.uniform(0, 1) < p, for the draw u / Grid and p = pn / Grid
BelowProb(u, pn) == u < pn

(* ------------------------------- anneal ------------------------------- *)

\* a loop that runs once more than asked: range(iters + 1)
HasNextInclusive(k, n) == k <= n

\* a loop over range(abs(iters))
HasNextAbs(k, n) == k < n \/ k < 0 - n

\* for i in range(iters): the loop has a next index
HasNext(k, n) == k < n

\* line 64: the move kind of the iteration
CongMethod(ps) == "PIVOT"

\* lines 66-69: the weight function handed to the chosen move
WeightFunc(method) == IF method = "PIVOT" THEN "pivot_select" ELSE "lc_select"

\* line 80 with <= for <
ImprovesOrEqual(s1, s) == s1 <= s

\* the comparison of line 80 turned around
ImprovesReversed(s1, s) == s1 > s

\* line 80: the candidate is strictly better than the tracked current score
Improves(s1, s) == s1 < s

\* lines 80-81: the acceptance test; the draw m is consumed only when the
\* first disjunct is false and temp != 0
Accepts(s, s1, t, m) == Improves(s1, s) \/ (NonZero(t) /\ BelowExp(m, s, s1, t))

\* line 85 with <= for <
BeatsBestOrEqual(s, sb) == s <= sb

\* the comparison of line 85 turned around
BeatsBestReversed(s, sb) == s > sb

\* the incumbent replaced by every accepted candidate that differs from it
BeatsBestAny(s, sb) == s # sb

\* line 85: the accepted candidate beats the incumbent
BeatsBest(s, sb) == s < sb

\* the history recording the current score instead of the incumbent score
RecordedCurrent(h, s, sb) == Append(h, s)

\* line 76: best_scores.append(sz_best), with current score s and incumbent
\* score sb at hand
Recorded(h, s, sb) == Append(h, sb)

\* g_best = g, without the copy
EnterBestAlias(copy, cur) == cur

\* line 53: the object g_best is bound to: the new copy, not g itself
EnterBest(copy, cur) == copy

\* lines 84 and 86 in the other order: the incumbent copied from the old g
BestFromOld(newg, oldg) == oldg

\* line 86: g_best = g.copy() runs after line 84 rebound g: the object copied
\* is the new g, not the one g held during the iteration
BestFrom(newg, oldg) == newg

\* g1 = g, without the copy
CloneCandidateAlias(copy, cur) == cur

\* line 61: the object g1 is bound to: a new copy of g
CloneCandidate(copy, cur) == copy

\* g = g1, without the copy
AcceptCurrentAlias(copy, cand) == cand

\* line 84: the object g is bound to on accept: a new copy of g1
AcceptCurrent(copy, cand) == copy

\* a loop over range(0, iters, 2)
NextIndexSkipping(k) == k + 2

\* line 59: range(iters) hands out consecutive indices
NextIndex(k) == k + 1

Min(a, b) == IF a < b THEN a ELSE b

Init ==
    /\ args \in [g : {0}, d : Diagrams, iters : (0 - 1) .. MaxIters, temp : 0 .. MaxTemp,
                 cool : CoolRates, cong_ps : Mixes, full_reduce_prob : Probs,
                 reset_prob : Probs]
    /\ heap = [o \in {args.g} |-> args.d]
    /\ g = args.g
    /\ g1 = Unbound
    /\ g_best = Unbound
    /\ sz = Unbound
    /\ sz1 = Unbound
    /\ sz_best = Unbound
    /\ best_scores = <<>>
    /\ temp = [n |-> args.temp, e |-> 0]
    /\ i = 0
    /\ pc = "call"
    /\ ret = [g |-> Unbound, scores |-> <<>>]
    /\ log = [moves |-> 0, passes |-> 0, evals |-> 0, draws |-> 0, cools |-> 0,
              kind |-> "none", weights |-> "none", outcome |-> "none",
              seen |-> Unbound, after |-> <<>>, level |-> 0]

\* lines 53-57: g_best = g.copy(); sz = score(g_best); sz_best = sz; best_scores = list()
Enter ==
    /\ pc = "call"
    /\ LET n == FreshId(Live) IN
        /\ g_best' = EnterBest(n, g)
        /\ heap' = Collect(Copied(heap, n, g), {args.g, g, g_best'})
        /\ sz' = Score(heap'[g_best'])
        /\ sz_best' = sz'
        /\ log' = [log EXCEPT !.evals = @ + 1, !.seen = Score(heap[g])]
    /\ best_scores' = <<>>
    /\ pc' = "for"
    /\ UNCHANGED <<args, g, g1, sz1, temp, i, ret>>

\* lines 59-61: the loop takes its next index; g1 = g.copy()
Clone ==
    /\ pc = "for"
    /\ HasNext(i, args.iters)
    /\ LET n == FreshId(Live) IN
        /\ g1' = CloneCandidate(n, g)
        /\ heap' = Collect(Copied(heap, n, g), {args.g, g, g_best, g1'})
    /\ log' = [log EXCEPT !.level = 0]
    /\ pc' = "move"
    /\ UNCHANGED <<args, g, g_best, sz, sz1, sz_best, best_scores, temp, i, ret>>

\* lines 63-69: the move of the iteration rewrites the candidate in place
Move ==
    /\ pc = "move"
    /\ \E d \in Rewrites(heap[g1]) :
        heap' = [heap EXCEPT ![g1] = d]
    /\ log' = [log EXCEPT !.moves = @ + 1,
                          !.kind = CongMethod(args.cong_ps),
                          !.weights = WeightFunc(CongMethod(args.cong_ps))]
    /\ pc' = "reduce"
    /\ UNCHANGED <<args, g, g1, g_best, sz, sz1, sz_best, best_scores, temp, i, ret>>

\* lines 63-69: the move finds no applicable rewrite and raises; anneal has no
\* handler, the exception leaves the function
MoveRaises ==
    /\ pc = "move"
    /\ NoRewrite(heap[g1])
    /\ log' = [log EXCEPT !.kind = CongMethod(args.cong_ps),
                          !.weights = WeightFunc(CongMethod(args.cong_ps))]
    /\ pc' = "raised"
    /\ UNCHANGED <<args, heap, g, g1, g_best, sz, sz1, sz_best, best_scores, temp, i, ret>>

\* lines 72-73: if random.uniform(0, 1) < full_reduce_prob: full_reduce(g1)
Reduce ==
    /\ pc = "reduce"
    /\ \E u \in Uniform :
        IF BelowProb(u, args.full_reduce_prob)
        THEN /\ heap' = [heap EXCEPT ![g1] = FullReduce(heap[g1])]
             /\ log' = [log EXCEPT !.draws = @ + 1, !.passes = @ + 1]
        ELSE /\ heap' = heap
             /\ log' = [log EXCEPT !.draws = @ + 1]
    /\ pc' = "score"
    /\ UNCHANGED <<args, g, g1, g_best, sz, sz1, sz_best, best_scores, temp, i, ret>>

\* lines 74-76: sz1 = score(g1); best_scores.append(sz_best)
Evaluate ==
    /\ pc = "score"
    /\ sz1' = Score(heap[g1])
    /\ best_scores' = Recorded(best_scores, sz, sz_best)
    /\ log' = [log EXCEPT !.evals = @ + 1, !.seen = Min(@, Score(heap[g1]))]
    /\ pc' = "cool"
    /\ UNCHANGED <<args, heap, g, g1, g_best, sz, sz_best, temp, i, ret>>

\* line 78: if temp != 0: temp *= 1.0 - cool
Cool ==
    /\ pc = "cool"
    /\ IF NonZero(temp)
       THEN /\ temp' = Cooled(temp, args.cool)
            /\ log' = [log EXCEPT !.cools = @ + 1]
       ELSE UNCHANGED <<temp, log>>
    /\ pc' = "decide"
    /\ UNCHANGED <<args, heap, g, g1, g_best, sz, sz1, sz_best, best_scores, i, ret>>

\* the random draws line 80-81 consumes
AcceptDraws == IF ~Improves(sz1, sz) /\ NonZero(temp) THEN 1 ELSE 0

\* lines 80-87: the candidate is accepted
Accept ==
    /\ pc = "decide"
    /\ sz' = sz1
    /\ LET n == FreshId(Live)
           c == AcceptCurrent(n, g1)
           h == Copied(heap, n, g1)
       IN IF BeatsBest(sz1, sz_best)
          THEN LET b == FreshId({args.g, c, g1, g_best}) IN
               /\ heap' = Collect(Copied(h, b, BestFrom(c, g)), {args.g, c, g1, b})
               /\ g' = c
               /\ g_best' = b
               /\ sz_best' = sz1
          ELSE /\ heap' = Collect(h, {args.g, c, g1, g_best})
               /\ g' = c
               /\ UNCHANGED <<g_best, sz_best>>
    /\ \E m \in Levels :
        /\ Accepts(sz, sz1, temp, m)
        /\ log' = [log EXCEPT !.draws = @ + AcceptDraws, !.outcome = "accept",
                              !.after = Append(@, sz_best'),
                              !.level = IF AcceptDraws = 1 THEN m ELSE 0]
    /\ i' = NextIndex(i)
    /\ pc' = "for"
    /\ UNCHANGED <<args, g1, sz1, best_scores, temp, ret>>

\* lines 80-81, 88-89: the candidate is rejected;
\* elif random.uniform(0, 1) < reset_prob: g = g_best.copy()
Reject ==
    /\ pc = "decide"
    /\ \E m \in Levels, u \in Uniform :
        /\ ~Accepts(sz, sz1, temp, m)
        /\ IF BelowProb(u, args.reset_prob)
           THEN LET n == FreshId(Live) IN
                /\ heap' = Collect(Copied(heap, n, g_best), {args.g, n, g1, g_best})
                /\ g' = n
                /\ log' = [log EXCEPT !.draws = @ + AcceptDraws + 1, !.outcome = "reset",
                                      !.after = Append(@, sz_best),
                                      !.level = IF AcceptDraws = 1 THEN m ELSE 0]
           ELSE /\ UNCHANGED <<heap, g>>
                /\ log' = [log EXCEPT !.draws = @ + AcceptDraws + 1, !.outcome = "reject",
                                      !.after = Append(@, sz_best),
                                      !.level = IF AcceptDraws = 1 THEN m ELSE 0]
    /\ i' = NextIndex(i)
    /\ pc' = "for"
    /\ UNCHANGED <<args, g1, g_best, sz, sz1, sz_best, best_scores, temp, ret>>

\* lines 59, 91: the loop is exhausted; return g_best, best_scores
Return ==
    /\ pc = "for"
    /\ ~HasNext(i, args.iters)
    /\ ret' = [g |-> g_best, scores |-> best_scores]
    /\ pc' = "done"
    /\ UNCHANGED <<args, heap, g, g1, g_best, sz, sz1, sz_best, best_scores, temp, i, log>>

Next ==
    \/ Enter
    \/ Clone
    \/ Move
    \/ MoveRaises
    \/ Reduce
    \/ Evaluate
    \/ Cool
    \/ Accept
    \/ Reject
    \/ Return

Spec == Init /\ [][Next]_vars

(* ------------------------------- claims ------------------------------- *)

NonIncreasing(h) == \A k \in 1 .. (Len(h) - 1) : h[k + 1] <= h[k]

Last(h) == h[Len(h)]

\* C1: a run with iters >= 0 that returns hands back a history of exactly
\* iters entries; the history grows by one entry per iteration, at line 76,
\* and nowhere else, whatever the outcomes of the iterations were.
C1_HistoryLength ==
    /\ Len(best_scores) = i + (IF pc \in {"cool", "decide"} THEN 1 ELSE 0)
    /\ (pc = "done" /\ args.iters >= 0) => Len(ret.scores) = args.iters

C1_Witness ==
    /\ pc = "done"
    /\ args.iters = MaxIters
    /\ Len(ret.scores) = MaxIters
    /\ log.outcome = "reset"

\* C2: the incumbent score never increases: the initial score followed by
\* the incumbent score after each iteration is a non-increasing sequence
\* ending in the present sz_best, and the history is non-increasing.
C2_IncumbentNeverIncreases ==
    /\ pc # "call" =>
        /\ NonIncreasing(<<Score(args.d)>> \o log.after)
        /\ sz_best = Last(<<Score(args.d)>> \o log.after)
    /\ NonIncreasing(best_scores)
    /\ best_scores # <<>> => sz_best <= Last(best_scores)
    /\ pc = "done" => NonIncreasing(ret.scores)

C2_Witness ==
    /\ pc = "done"
    /\ Len(ret.scores) = 2
    /\ ret.scores[2] < ret.scores[1]
    /\ sz > sz_best

\* C3: from line 55 on, and at return, the score of the incumbent diagram is
\* the tracked incumbent score; the score of the returned diagram, computed
\* again, is the final sz_best.
C3_IncumbentScoreTracked ==
    /\ pc # "call" => Score(heap[g_best]) = sz_best
    /\ pc = "done" => Score(heap[ret.g]) = sz_best

C3_Witness ==
    /\ pc = "done"
    /\ Score(heap[ret.g]) < Score(args.d)
    /\ sz > sz_best

\* C4: between iterations and at return, sz_best is the least score seen:
\* the minimum of the initial score and of every candidate score evaluated,
\* accepted or not.
C4_IncumbentIsBestSeen ==
    pc \in {"for", "move", "reduce", "score", "done", "raised"} => sz_best = log.seen

C4_Witness ==
    /\ pc = "for"
    /\ i = 2
    /\ log.outcome = "reject"
    /\ sz1 > sz
    /\ sz_best < Score(args.d)

\* What section 7 of the specification asks of a configuration: iterations
\* > 0, coolingRate in [0, 1), probabilities in [0, 1], a mix summing to 1.
ValidConfig(a) ==
    /\ a.iters > 0
    /\ 0 <= a.cool /\ a.cool < Grid
    /\ 0 <= a.full_reduce_prob /\ a.full_reduce_prob <= Grid
    /\ 0 <= a.reset_prob /\ a.reset_prob <= Grid
    /\ \A k \in 1 .. 2 : 0 <= a.cong_ps[k] /\ a.cong_ps[k] <= Grid
    /\ a.cong_ps[1] + a.cong_ps[2] = Grid

\* C5, as claimed: a call whose configuration is invalid (iterations <= 0,
\* coolingRate outside [0, 1), a probability outside [0, 1]) ends in a
\* configuration error: no move is applied, no history is built, nothing is
\* returned.
C5_InvalidConfigRejected ==
    ~ValidConfig(args) =>
        /\ log.moves = 0
        /\ best_scores = <<>>
        /\ pc # "done"

\* C5, amended: anneal validates nothing.  A call with iterations <= 0 runs
\* no iteration (no move, no entry in the history) and returns a clone of the
\* initial diagram with an empty history; a call with iterations >= 1 and a
\* cooling rate of 1 or a probability above 1 runs like any other: when it
\* returns, it has applied iters moves and hands back iters entries, and the
\* only way it ends without returning is a move that raised.
C5_NoValidation ==
    /\ (args.iters <= 0 /\ pc # "call") =>
        /\ pc \in {"for", "done"}
        /\ log.moves = 0
        /\ best_scores = <<>>
    /\ (args.iters <= 0 /\ pc = "done") =>
        /\ ret.scores = <<>>
        /\ ret.g \in (DOMAIN heap) \ {args.g}
        /\ heap[ret.g] = args.d
    /\ (~ValidConfig(args) /\ args.iters >= 1 /\ pc = "done") =>
        /\ Len(ret.scores) = args.iters
        /\ log.moves = args.iters
    /\ (~ValidConfig(args) /\ pc = "raised") =>
        /\ g1 # Unbound
        /\ log.kind # "none"
        /\ log.moves = i

C5_Witness ==
    /\ pc = "done"
    /\ args.iters = MaxIters
    /\ args.cool = Grid
    /\ args.full_reduce_prob > Grid
    /\ args.reset_prob > Grid
    /\ log.moves = MaxIters

\* C6, as claimed: a move that fails with "no applicable rewrite" does not
\* abort the run; the iteration counts as a rejection and anneal goes on to
\* return the incumbent and iters entries.  In particular the run never ends
\* by the move's exception leaving anneal.
C6_MoveFailureNotFatal == pc # "raised"

\* C7: with initial temperature 0 the temperature stays 0, every accepted
\* candidate is strictly better than the tracked current score and than the
\* current diagram's own score, for every reset_prob and full_reduce_prob,
\* and the returned diagram scores no more than the initial one.
C7_GreedyAtZero ==
    /\ [](args.temp = 0 =>
            /\ temp.n = 0
            /\ pc = "done" => Score(heap[ret.g]) <= Score(args.d))
    /\ [][(args.temp = 0 /\ pc = "decide" /\ log'.outcome = "accept") =>
            /\ sz1 < sz
            /\ sz1 < Score(heap[g])]_vars

C7_Witness ==
    /\ pc = "done"
    /\ args.temp = 0
    /\ args.reset_prob > 0
    /\ args.full_reduce_prob > 0
    /\ log.outcome = "accept"
    /\ Score(heap[ret.g]) < Score(args.d)

\* C8, as claimed: the move kind applied follows cong_ps; a kind whose
\* probability is 0 is never applied, and each kind gets its own weight
\* function (cong_ps = [1, 0] applies LC only, with lc_select).
C8_MixRespected ==
    /\ log.kind = "LC" => (args.cong_ps[1] > 0 /\ log.weights = "lc_select")
    /\ log.kind = "PIVOT" => (args.cong_ps[2] > 0 /\ log.weights = "pivot_select")

\* C9: the entry of iteration k is the incumbent score before that
\* iteration's update: the first entry is the initial score, entry k + 1 is
\* sz_best as iteration k left it, and the returned diagram scores no more
\* than the last entry (which is the incumbent before the last iteration).
C9_HistoryLagsIncumbent ==
    /\ best_scores # <<>> => best_scores[1] = Score(args.d)
    /\ \A k \in 2 .. Len(best_scores) : best_scores[k] = log.after[k - 1]
    /\ (pc = "done" /\ ret.scores # <<>>) =>
        /\ Last(ret.scores) = (<<Score(args.d)>> \o log.after)[args.iters]
        /\ Score(heap[ret.g]) <= Last(ret.scores)

C9_Witness ==
    /\ pc = "done"
    /\ Len(ret.scores) = 2
    /\ ret.scores[2] < ret.scores[1]
    /\ Score(heap[ret.g]) < Last(ret.scores)

\* C10: with iters = 0 anneal returns a new object with the content of the
\* initial diagram and an empty history; no move, no normalization pass and
\* no random draw took place, and the caller's diagram is as it was.
C10_ZeroIterations ==
    (args.iters = 0 /\ pc = "done") =>
        /\ ret.scores = <<>>
        /\ ret.g \in (DOMAIN heap) \ {args.g}
        /\ heap[ret.g] = args.d
        /\ heap[args.g] = args.d
        /\ log.moves = 0
        /\ log.passes = 0
        /\ log.draws = 0

C10_Witness ==
    /\ pc = "done"
    /\ args.iters = 0
    /\ args.full_reduce_prob > 0
    /\ args.temp > 0

\* C12, as claimed: after a rejection whose reset fired, the current diagram
\* is a clone of the incumbent and the tracked current score is the
\* incumbent score: sz = score(g) = sz_best.
C12_ResetRestoresScore ==
    (pc = "for" /\ log.outcome = "reset") =>
        /\ g # g_best
        /\ heap[g] = heap[g_best]
        /\ sz = Score(heap[g])
        /\ sz = sz_best

\* C13: the decision of an iteration, for current score sz, candidate score
\* sz1, temperature temp >= 0 and draw exp(-m): the candidate is accepted
\* exactly when sz1 < sz, or temp > 0 and exp(-m) < exp((sz - sz1)/temp),
\* that is m * temp > sz1 - sz; an equal score is always accepted at
\* temp > 0, nothing but an improvement at temp = 0.  The draw is consumed
\* only when sz1 >= sz and temp > 0.  The current diagram and score change
\* in no other step than a decision, and take the candidate's content and
\* score only in an accepting one.
C13_AcceptanceRule ==
    /\ [][pc = "decide" =>
            /\ temp.n >= 0
            /\ (log'.level = 0) <=> (sz1 < sz \/ temp.n = 0)
            /\ (log'.outcome = "accept") <=>
                    \/ sz1 < sz
                    \/ /\ temp.n > 0
                       /\ log'.level * temp.n > (sz1 - sz) * Pow(Grid, temp.e)
            /\ (sz1 = sz /\ temp.n > 0) => log'.outcome = "accept"
            /\ (log'.outcome = "accept") =>
                    (g' # g /\ heap'[g'] = heap[g1] /\ sz' = sz1)
            /\ (log'.outcome = "reject") => (g' = g /\ sz' = sz)
            /\ (log'.outcome = "reset") => (heap'[g'] = heap[g_best] /\ sz' = sz)]_vars
    /\ [][pc # "decide" => (g' = g /\ sz' = sz) \/ pc = "call"]_vars

C13_Witness ==
    /\ pc = "for"
    /\ log.outcome = "accept"
    /\ log.level > 1
    /\ sz1 > Score(args.d)
    /\ sz = sz1

\* C14: for an initial temperature >= 0 and a cooling rate in [0, 1) the
\* temperature is never negative and never rises from one state to the
\* next; a temperature of 0 stays 0, and at temperature 0 no draw is taken
\* for the acceptance test and only an improving candidate is accepted.
C14_TemperatureMonotone ==
    /\ []((args.temp >= 0 /\ 0 <= args.cool /\ args.cool < Grid) => temp.n >= 0)
    /\ [][(args.temp >= 0 /\ 0 <= args.cool /\ args.cool < Grid) =>
            temp'.n * Pow(Grid, temp.e) <= temp.n * Pow(Grid, temp'.e)]_vars
    /\ [][temp.n = 0 =>
            /\ temp'.n = 0
            /\ pc = "decide" => log'.level = 0
            /\ (pc = "decide" /\ log'.outcome = "accept") => sz1 < sz]_vars

C14_Witness ==
    /\ pc = "done"
    /\ args.iters = MaxIters
    /\ args.cool = 1
    /\ temp.n > 0
    /\ temp.n * 1 < args.temp * Pow(Grid, temp.e)

\* C15: the temperature is advanced once per iteration, between the scoring
\* of the candidate and the decision: up to the scoring of iteration i it is
\* the initial temperature times (1 - cool)^i, at the decision of iteration
\* i it is the initial temperature times (1 - cool)^(i + 1), whatever the
\* earlier outcomes were; while it is not 0, the multiplication has been
\* carried out exactly that many times.
C15_CoolingSchedule ==
    LET k == IF pc = "decide" THEN i + 1 ELSE i IN
    /\ temp.n * Pow(Grid, k) = args.temp * Pow(Grid - args.cool, k) * Pow(Grid, temp.e)
    /\ temp.n # 0 => (log.cools = k /\ temp.e = k)
    /\ pc = "decide" => (sz1 = Score(heap[g1]) /\ Len(best_scores) = k)

C15_Witness ==
    /\ pc = "decide"
    /\ i = 1
    /\ args.cool = 1
    /\ args.temp > 0
    /\ log.outcome = "reset"
    /\ temp.e = 2

\* the diagram variables that are bound
Bound == {v \in {g, g1, g_best} : v # Unbound}

\* C16: the current, candidate and incumbent diagrams are pairwise distinct
\* objects in every state; the object a move or the normalization pass
\* works on is the candidate, an object allocated by the copy of line 61 in
\* the same iteration with the content of the current diagram, and no
\* other object changes under the move or the pass.
C16_NoAliasing ==
    /\ [](/\ (g1 # Unbound) => g1 # g
          /\ (g_best # Unbound) => g_best # g
          /\ (g1 # Unbound /\ g_best # Unbound) => g1 # g_best
          /\ Bound \subseteq DOMAIN heap
          /\ pc \in {"move", "reduce"} => g1 \notin {g, g_best, args.g})
    /\ [][pc' = "move" =>
            /\ pc = "for"
            /\ g1' \notin (DOMAIN heap)
            /\ heap'[g1'] = heap[g]
            /\ log'.moves = i /\ i' = i]_vars
    /\ [][(pc \in {"move", "reduce"}) =>
            /\ DOMAIN heap' = DOMAIN heap
            /\ \A o \in (DOMAIN heap) \ {g1} : (heap'[o] = heap[o])]_vars

C16_Witness ==
    /\ pc = "reduce"
    /\ i = 1
    /\ log.outcome = "accept"
    /\ g # args.g
    /\ heap[g1] # heap[g]
    /\ heap[g] # heap[g_best]
    /\ Cardinality({args.g, g, g1, g_best}) = 4

\* C17: a rejecting iteration leaves the incumbent object, its content and
\* the incumbent score as they were, and without a reset also the current
\* object, its content and the current score; an accepting iteration changes
\* the incumbent only when the candidate's score is strictly below the
\* incumbent score, and then to a new object with the candidate's content.
C17_DecisionFrame ==
    [][pc = "decide" =>
        /\ (log'.outcome \in {"reject", "reset"}) =>
                /\ g_best' = g_best
                /\ heap'[g_best] = heap[g_best]
                /\ sz_best' = sz_best
        /\ (log'.outcome = "reject") =>
                /\ g' = g
                /\ heap'[g] = heap[g]
                /\ sz' = sz
        /\ (log'.outcome = "accept" /\ ~(sz1 < sz_best)) =>
                /\ g_best' = g_best
                /\ heap'[g_best] = heap[g_best]
                /\ sz_best' = sz_best
        /\ (log'.outcome = "accept" /\ sz1 < sz_best) =>
                /\ g_best' # g_best
                /\ heap'[g_best'] = heap[g1]
                /\ sz_best' = sz1]_vars

C17_Witness ==
    /\ pc = "for"
    /\ i = 2
    /\ log.outcome = "accept"
    /\ sz = sz_best
    /\ heap[g] # heap[g_best]
    /\ sz_best < Score(args.d)

\* the steps of the present iteration that lie behind the position pc
Behind(positions) == IF pc \in positions THEN 1 ELSE 0

\* C18: the loop body runs once for each index 0 .. iters-1 and never more:
\* every decision, whatever its outcome, advances the index by one; each
\* pass applies one move to the candidate cloned in it and evaluates the
\* score once (plus the one evaluation of line 54); short of a move that
\* raises, every state before the return has a next step, and anneal
\* returns with exactly iters passes made.
C18_ExactlyItersIterations ==
    /\ 0 <= i
    /\ (pc # "call" /\ args.iters >= 0) => i <= args.iters
    /\ log.moves = i + Behind({"reduce", "score", "cool", "decide"})
    /\ log.evals = Behind({"for", "move", "reduce", "score", "cool", "decide", "done", "raised"})
                    + i + Behind({"cool", "decide"})
    /\ Len(log.after) = i
    /\ pc = "done" => (i = (IF args.iters > 0 THEN args.iters ELSE 0) /\ log.moves = i)
    /\ pc \notin {"done", "raised"} => ENABLED Next

C18_Witness ==
    /\ pc = "done"
    /\ args.iters = MaxIters
    /\ log.moves = MaxIters
    /\ log.evals = MaxIters + 1
    /\ log.after[1] < Score(args.d)
    /\ log.outcome = "reset"

\* C19: from line 55 on, the tracked incumbent score is never above the
\* tracked current score, also after a worsening candidate was accepted and
\* after a reset.
C19_BestNotAboveCurrent == pc # "call" => sz_best <= sz

C19_Witness ==
    /\ pc = "for"
    /\ log.outcome = "reset"
    /\ sz_best < sz
    /\ Score(heap[g]) = sz_best

\* C20: the caller's diagram object keeps its content throughout: anneal
\* copies it (into the incumbent at line 53, into candidates while it is the
\* current diagram) and never hands it to a move or to the normalization
\* pass.
C20_InputNotMutated ==
    /\ args.g \in DOMAIN heap
    /\ heap[args.g] = args.d
    /\ pc \in {"move", "reduce"} => g1 # args.g
    /\ g_best # args.g
    /\ pc = "done" => ret.g # args.g

C20_Witness ==
    /\ pc = "done"
    /\ args.iters = MaxIters
    /\ g # args.g
    /\ heap[g] # args.d
    /\ heap[ret.g] # args.d
    /\ log.passes > 0

====
